---------------------------- MODULE Spec2Model ----------------------------
(***************************************************************************)
(* A model of the monkers front end: the byte-level Lexer (src/lexer.rs),  *)
(* the Token model (src/lexer/token.rs), the Parser (src/parser.rs) and    *)
(* the AST rendering (src/ast.rs).                                         *)
(*                                                                         *)
(* Bytes are their ASCII codes, a text is a sequence of bytes, and a       *)
(* position is 0-based as in the code (byte p of inp is inp[p + 1]).       *)
(***************************************************************************)
EXTENDS Integers, Sequences, FiniteSets, TLC

VARIABLES
    input,      \* the source text handed to Lexer::new
    lexer,      \* the Lexer driven by direct next_token calls
    trace,      \* history: one record per direct next_token call
    iter,       \* a second Lexer on the same text, driven as an Iterator
    yielded,    \* history: the items the for loop over iter received
    iterEnded,  \* the for loop over iter has received None
    parser,     \* the Parser (its Lexer, current_token, peek_token)
    program,    \* parse_program's local `program.statements`
    result,     \* what parse_program returned (kind "None" while running)
    pc,         \* where the parse pipeline stands
    gen,        \* 1: parsing the source, 2: parsing its rendering
    first,      \* the statements of the first parse, kept for the round trip
    last        \* history: the latest parse_statement call

vars == <<input, lexer, trace, iter, yielded, iterEnded,
          parser, program, result, pc, gen, first, last>>

lexVars == <<lexer, trace, iter, yielded, iterEnded>>
parseVars == <<parser, program, result, pc, gen, first, last>>

----------------------------------------------------------------------------
(* Bytes *)

\* The ASCII code of each character the model writes out.
Ord ==
    [c \in {"NUL", "TAB", "LF", "FF", "CR", " ", "!", "(", ")", "*", "+", ",",
            "-", "/", "0", "1", "2", "3", "4", "5", "6", "7", "8", "9", ";",
            "<", "=", ">", "@", "A", "_", "a", "b", "e", "f", "i", "l", "n",
            "r", "s", "t", "u", "x", "y", "{", "}"} |->
        CASE c = "NUL" -> 0   [] c = "TAB" -> 9   [] c = "LF" -> 10
          [] c = "FF" -> 12   [] c = "CR" -> 13   [] c = " " -> 32
          [] c = "!" -> 33    [] c = "(" -> 40    [] c = ")" -> 41
          [] c = "*" -> 42    [] c = "+" -> 43    [] c = "," -> 44
          [] c = "-" -> 45    [] c = "/" -> 47    [] c = "0" -> 48
          [] c = "1" -> 49    [] c = "2" -> 50    [] c = "3" -> 51
          [] c = "4" -> 52    [] c = "5" -> 53    [] c = "6" -> 54
          [] c = "7" -> 55    [] c = "8" -> 56    [] c = "9" -> 57
          [] c = ";" -> 59    [] c = "<" -> 60    [] c = "=" -> 61
          [] c = ">" -> 62    [] c = "@" -> 64    [] c = "A" -> 65
          [] c = "_" -> 95    [] c = "a" -> 97    [] c = "b" -> 98
          [] c = "e" -> 101   [] c = "f" -> 102   [] c = "i" -> 105
          [] c = "l" -> 108   [] c = "n" -> 110   [] c = "r" -> 114
          [] c = "s" -> 115   [] c = "t" -> 116   [] c = "u" -> 117
          [] c = "x" -> 120   [] c = "y" -> 121   [] c = "{" -> 123
          [] c = "}" -> 125]

\* A text written as a tuple of characters, as bytes.
Str(cs) == [i \in 1..Len(cs) |-> Ord[cs[i]]]

\* u8::is_ascii_whitespace: space, tab, line feed, form feed, carriage return.
is_ascii_whitespace(ch) == ch \in {32, 9, 10, 12, 13}

\* u8::is_ascii_alphabetic: 'A'..='Z' and 'a'..='z'.
is_ascii_alphabetic(ch) == ch \in 65..90 \/ ch \in 97..122

\* u8::is_ascii_digit: '0'..='9'.
is_ascii_digit(ch) == ch \in 48..57

----------------------------------------------------------------------------
(* Token model *)

\* Token::new / token!
Token(token_type, literal) == [token_type |-> token_type, literal |-> literal]

TokenType ==
    {"Let", "Ident", "Int", "Assign", "Plus", "Lparen", "Rparen", "Lbrace",
     "Rbrace", "Comma", "Semicolon", "Eof", "Illegal", "Function", "Bang",
     "Dash", "GreaterThan", "LesserThan", "Equals", "If", "Else", "Asterisk",
     "ForwardSlash", "NotEqual", "False", "True", "Return"}

----------------------------------------------------------------------------
(* Lexer *)

\* A read_char that leaves the positions alone once the source is used up.
read_char_stuck(inp, l) ==
    IF l.read_position >= Len(inp)
    THEN [l EXCEPT !.ch = 0,
                   !.steps = Append(@, [from_current |-> l.current_position,
                                        from_read    |-> l.read_position,
                                        current_position |-> l.current_position,
                                        read_position    |-> l.read_position])]
    ELSE [ch               |-> inp[l.read_position + 1],
          current_position |-> l.read_position,
          read_position    |-> l.read_position + 1,
          steps            |-> Append(l.steps,
                                      [from_current |-> l.current_position,
                                       from_read    |-> l.read_position,
                                       current_position |-> l.read_position,
                                       read_position    |-> l.read_position + 1])]

\* Lexer::read_char.  steps is a history field: the positions each
\* read_char of this lexer started from and left.
read_char(inp, l) ==
    [ch               |-> IF l.read_position >= Len(inp)
                          THEN 0
                          ELSE inp[l.read_position + 1],
     current_position |-> l.read_position,
     read_position    |-> l.read_position + 1,
     steps            |-> Append(l.steps,
                                 [from_current |-> l.current_position,
                                  from_read    |-> l.read_position,
                                  current_position |-> l.read_position,
                                  read_position    |-> l.read_position + 1])]

\* A constructor that leaves out the priming read_char.
Lexer_new_unprimed(inp) ==
    [ch |-> 0, current_position |-> 0, read_position |-> 0, steps |-> <<>>]

\* Lexer::new
Lexer_new(inp) ==
    read_char(inp, [ch |-> 0, current_position |-> 0, read_position |-> 0,
                    steps |-> <<>>])

\* The one element of a set of one element.  An intermediate value of a scan
\* or a parse is bound as the element of a singleton set, {f(v) : v \in {e}},
\* so that e is evaluated once however often f reads it.
Only(S) == CHOOSE v \in S : TRUE

\* A lookahead that reads the byte under the cursor instead of the next one.
lookahead_at_cursor(inp, l) ==
    IF l.current_position >= Len(inp) THEN 0 ELSE inp[l.current_position + 1]

\* Lexer::lookahead
lookahead(inp, l) ==
    IF l.read_position >= Len(inp) THEN 0 ELSE inp[l.read_position + 1]

\* Lexer::skip_whitespace
RECURSIVE skip_whitespace(_, _)
skip_whitespace(inp, l) ==
    IF is_ascii_whitespace(l.ch)
    THEN Only({skip_whitespace(inp, q) : q \in {read_char(inp, l)}})
    ELSE l

\* The scanning loop of read_ident: the lexer when the loop exits.
RECURSIVE ident_loop(_, _)
ident_loop(inp, l) ==
    IF is_ascii_alphabetic(l.ch) \/ l.ch = Ord["_"]
    THEN Only({ident_loop(inp, q) : q \in {read_char(inp, l)}})
    ELSE l

\* Lexer::read_ident: the lexer after the run and the text of the run.
read_ident(inp, l) ==
    LET out == ident_loop(inp, l)
    IN  [lex  |-> out,
         text |-> SubSeq(inp, l.current_position + 1, out.current_position)]

\* A read_num that takes the digit under the cursor and no more.
read_num_one_digit(inp, l) ==
    [lex  |-> read_char(inp, l),
     text |-> SubSeq(inp, l.current_position + 1, l.current_position + 1)]

\* The scanning loop of read_num.
RECURSIVE num_loop(_, _)
num_loop(inp, l) ==
    IF is_ascii_digit(l.ch)
    THEN Only({num_loop(inp, q) : q \in {read_char(inp, l)}})
    ELSE l

\* Lexer::read_num
read_num(inp, l) ==
    LET out == num_loop(inp, l)
    IN  [lex  |-> out,
         text |-> SubSeq(inp, l.current_position + 1, out.current_position)]

\* The keyword table of next_token's identifier branch.
keyword_or_ident(id) ==
    CASE id = Str(<<"l", "e", "t">>)                -> Token("Let", id)
      [] id = Str(<<"f", "n">>)                     -> Token("Function", id)
      [] id = Str(<<"e", "l", "s", "e">>)           -> Token("Else", id)
      [] id = Str(<<"i", "f">>)                     -> Token("If", id)
      [] id = Str(<<"t", "r", "u", "e">>)           -> Token("True", id)
      [] id = Str(<<"f", "a", "l", "s", "e">>)      -> Token("False", id)
      [] id = Str(<<"r", "e", "t", "u", "r", "n">>) -> Token("Return", id)
      [] OTHER                                      -> Token("Ident", id)

\* The single-character arms with every unknown byte taken for the end of
\* input.
single_char_token_eof(ch) ==
    CASE ch = Ord["+"] -> Token("Plus", Str(<<"+">>))
      [] ch = Ord["-"] -> Token("Dash", Str(<<"-">>))
      [] ch = Ord["*"] -> Token("Asterisk", Str(<<"*">>))
      [] ch = Ord["("] -> Token("Lparen", Str(<<"(">>))
      [] ch = Ord[")"] -> Token("Rparen", Str(<<")">>))
      [] ch = Ord["{"] -> Token("Lbrace", Str(<<"{">>))
      [] ch = Ord["}"] -> Token("Rbrace", Str(<<"}">>))
      [] ch = Ord[","] -> Token("Comma", Str(<<",">>))
      [] ch = Ord[";"] -> Token("Semicolon", Str(<<";">>))
      [] ch = Ord["/"] -> Token("ForwardSlash", Str(<<"/">>))
      [] ch = Ord["<"] -> Token("LesserThan", Str(<<"<">>))
      [] ch = Ord[">"] -> Token("GreaterThan", Str(<<">">>))
      [] OTHER         -> Token("Eof", <<>>)

\* The single-character arms with the kinds of `+` and `-` exchanged.
single_char_token_swapped(ch) ==
    CASE ch = Ord["+"] -> Token("Dash", Str(<<"+">>))
      [] ch = Ord["-"] -> Token("Plus", Str(<<"-">>))
      [] ch = Ord["*"] -> Token("Asterisk", Str(<<"*">>))
      [] ch = Ord["("] -> Token("Lparen", Str(<<"(">>))
      [] ch = Ord[")"] -> Token("Rparen", Str(<<")">>))
      [] ch = Ord["{"] -> Token("Lbrace", Str(<<"{">>))
      [] ch = Ord["}"] -> Token("Rbrace", Str(<<"}">>))
      [] ch = Ord[","] -> Token("Comma", Str(<<",">>))
      [] ch = Ord[";"] -> Token("Semicolon", Str(<<";">>))
      [] ch = Ord["/"] -> Token("ForwardSlash", Str(<<"/">>))
      [] ch = Ord["<"] -> Token("LesserThan", Str(<<"<">>))
      [] ch = Ord[">"] -> Token("GreaterThan", Str(<<">">>))
      [] ch = 0        -> Token("Eof", <<>>)
      [] OTHER         -> Token("Illegal", <<>>)

\* The arms of next_token's match that build a token from the byte under the
\* cursor alone and leave the cursor to the trailing read_char.
single_char_token(ch) ==
    CASE ch = Ord["+"] -> Token("Plus", Str(<<"+">>))
      [] ch = Ord["-"] -> Token("Dash", Str(<<"-">>))
      [] ch = Ord["*"] -> Token("Asterisk", Str(<<"*">>))
      [] ch = Ord["("] -> Token("Lparen", Str(<<"(">>))
      [] ch = Ord[")"] -> Token("Rparen", Str(<<")">>))
      [] ch = Ord["{"] -> Token("Lbrace", Str(<<"{">>))
      [] ch = Ord["}"] -> Token("Rbrace", Str(<<"}">>))
      [] ch = Ord[","] -> Token("Comma", Str(<<",">>))
      [] ch = Ord[";"] -> Token("Semicolon", Str(<<";">>))
      [] ch = Ord["/"] -> Token("ForwardSlash", Str(<<"/">>))
      [] ch = Ord["<"] -> Token("LesserThan", Str(<<"<">>))
      [] ch = Ord[">"] -> Token("GreaterThan", Str(<<">">>))
      [] ch = 0        -> Token("Eof", <<>>)
      [] OTHER         -> Token("Illegal", <<>>)

\* Lexer::next_token: the token returned and the lexer afterwards.
Lexer_next_token(inp, l0) ==
    LET l == skip_whitespace(inp, l0)
    IN  CASE l.ch = Ord["="] ->
               IF lookahead(inp, l) = Ord["="]
               THEN [tok |-> Token("Equals", Str(<<"=", "=">>)),
                     lex |-> read_char(inp, read_char(inp, l))]
               ELSE [tok |-> Token("Assign", Str(<<"=">>)),
                     lex |-> read_char(inp, l)]
          [] l.ch = Ord["!"] ->
               IF lookahead(inp, l) = Ord["="]
               THEN [tok |-> Token("NotEqual", Str(<<"!", "=">>)),
                     lex |-> read_char(inp, read_char(inp, l))]
               ELSE [tok |-> Token("Bang", Str(<<"!">>)),
                     lex |-> read_char(inp, l)]
          [] l.ch \in 97..122 ->
               LET r == read_ident(inp, l)
               IN  [tok |-> keyword_or_ident(r.text), lex |-> r.lex]
          [] l.ch \in 48..57 ->
               LET r == read_num(inp, l)
               IN  [tok |-> Token("Int", r.text), lex |-> r.lex]
          [] OTHER ->
               [tok |-> single_char_token(l.ch), lex |-> read_char(inp, l)]

\* An Iterator::next that hands every token on, the Eof token included.
Iterator_next_unfiltered(inp, l) ==
    LET r == Lexer_next_token(inp, l)
    IN  [some |-> TRUE, item |-> r.tok, lex |-> r.lex]

\* Iterator::next for Lexer: None (some = FALSE), or Some(item).
Iterator_next(inp, l) ==
    LET r == Lexer_next_token(inp, l)
    IN  IF r.tok.token_type = "Eof"
        THEN [some |-> FALSE, item |-> r.tok, lex |-> r.lex]
        ELSE [some |-> TRUE, item |-> r.tok, lex |-> r.lex]

----------------------------------------------------------------------------
(* i64 values: a value is its decimal digits, most significant first, with no
   leading zero (0 is <<0>>); the parser builds no negative value. *)

\* i64::MAX = 9223372036854775807
I64MaxDigits == <<9, 2, 2, 3, 3, 7, 2, 0, 3, 6, 8, 5, 4, 7, 7, 5, 8, 0, 7>>

RECURSIVE strip_zeros(_)
strip_zeros(ds) ==
    IF Len(ds) > 1 /\ ds[1] = 0 THEN strip_zeros(Tail(ds)) ELSE ds

\* a <= b for digit sequences of one length.
RECURSIVE digits_leq(_, _)
digits_leq(a, b) ==
    IF a = <<>> THEN TRUE
    ELSE IF a[1] # b[1] THEN a[1] < b[1]
    ELSE digits_leq(Tail(a), Tail(b))

fits_i64(ds) ==
    \/ Len(ds) < Len(I64MaxDigits)
    \/ Len(ds) = Len(I64MaxDigits) /\ digits_leq(ds, I64MaxDigits)

\* str::parse::<i64> on a text: Ok(value), or Err on an empty text, a byte that
\* is no digit, or a value beyond i64::MAX. (A leading sign is accepted by
\* Rust; an Int token's literal is a digit run and never has one.)
parse_i64(text) ==
    IF text = <<>> \/ \E i \in 1..Len(text) : ~is_ascii_digit(text[i])
    THEN [ok |-> FALSE, value |-> <<>>]
    ELSE LET v == strip_zeros([i \in 1..Len(text) |-> text[i] - 48])
         IN  IF fits_i64(v) THEN [ok |-> TRUE, value |-> v]
                            ELSE [ok |-> FALSE, value |-> <<>>]

\* i64::to_string of a value the parser built.
i64_to_string(v) == [i \in 1..Len(v) |-> v[i] + 48]

----------------------------------------------------------------------------
(* AST model *)

\* Expression::Id(Identifier(name))
Id(name) == [kind |-> "Id", name |-> name]
\* Expression::Integer(IntegerLiteral(value))
Integer(value) == [kind |-> "Integer", value |-> value]
\* Expression::Prefix { operator, right }
Prefix(operator, right) ==
    [kind |-> "Prefix", operator |-> operator, right |-> right]

\* Statement::Let(LetStatement { token, name, value })
LetStatement(token, name, value) ==
    [kind |-> "Let", token |-> token, name |-> name, value |-> value]
\* Statement::Return(ReturnStatement { token, return_value })
ReturnStatement(token, return_value) ==
    [kind |-> "Return", token |-> token, return_value |-> return_value]
\* Statement::Expression(ExpressionStatement { token, expression })
ExpressionStatement(token, expression) ==
    [kind |-> "Expression", token |-> token, expression |-> expression]

\* Show for Expression (the parser builds no Expression::Lit)
RECURSIVE show_expression(_)
show_expression(e) ==
    CASE e.kind = "Id"      -> e.name
      [] e.kind = "Integer" -> i64_to_string(e.value)
      [] e.kind = "Prefix"  ->
            Str(<<"(">>) \o e.operator \o show_expression(e.right) \o Str(<<")">>)

\* A rendering of statements that leaves the closing `;` of Let and Return out.
show_statement_open(st) ==
    CASE st.kind = "Let" ->
            st.token.literal \o Str(<<" ">>) \o st.name \o Str(<<" ", "=", " ">>)
                \o show_expression(st.value)
      [] st.kind = "Return" ->
            st.token.literal \o Str(<<" ">>) \o show_expression(st.return_value)
      [] st.kind = "Expression" -> show_expression(st.expression)

\* Show for Statement, LetStatement, ReturnStatement, ExpressionStatement
show_statement(st) ==
    CASE st.kind = "Let" ->
            st.token.literal \o Str(<<" ">>) \o st.name \o Str(<<" ", "=", " ">>)
                \o show_expression(st.value) \o Str(<<";">>)
      [] st.kind = "Return" ->
            st.token.literal \o Str(<<" ">>) \o show_expression(st.return_value)
                \o Str(<<";">>)
      [] st.kind = "Expression" -> show_expression(st.expression)

\* Show for Program
RECURSIVE show_program(_)
show_program(statements) ==
    IF statements = <<>> THEN <<>>
    ELSE show_statement(Head(statements)) \o show_program(Tail(statements))

----------------------------------------------------------------------------
(* Parser.  A parser value holds its lexer, current_token and peek_token, and
   three history fields: pulls, the number of Lexer::next_token calls it has
   made, started, the tokens on which parse_expression was entered, and seen,
   the two cells as each Parser::next_token left them. *)

\* Parser::next_token
Parser_next_token(inp, p) ==
    LET r == Lexer_next_token(inp, p.lexer)
    IN  [p EXCEPT !.current_token = p.peek_token,
                  !.peek_token = r.tok,
                  !.lexer = r.lex,
                  !.pulls = @ + 1,
                  !.seen = Append(@, [current_token |-> p.peek_token,
                                      peek_token |-> r.tok])]

\* The prefix table Parser::new fills: token kind -> prefix parse function.
prefix_parse_fns ==
    [t \in {"Ident", "Int", "Bang", "Dash"} |->
        CASE t = "Ident" -> "parse_identifier"
          [] t = "Int"   -> "parse_integer_literal"
          [] t = "Bang"  -> "parse_prefix_expression"
          [] t = "Dash"  -> "parse_prefix_expression"]

\* A constructor that advances once: it fills peek_token and leaves the
\* placeholder in current_token.
Parser_new_once(inp, l) ==
    Parser_next_token(inp,
        [lexer |-> l, current_token |-> Token("Illegal", <<>>),
         peek_token |-> Token("Illegal", <<>>), pulls |-> 0,
         started |-> <<>>, seen |-> <<>>])

\* Parser::new
Parser_new(inp, l) ==
    LET p0 == [lexer |-> l, current_token |-> Token("Illegal", <<>>),
               peek_token |-> Token("Illegal", <<>>), pulls |-> 0,
               started |-> <<>>, seen |-> <<>>]
    IN  Only({Parser_next_token(inp, q) : q \in {Parser_next_token(inp, p0)}})

\* Results of the parse functions: Ok(node), Err(error), or a panic; p is the
\* parser as the function left it.
NoNode == [kind |-> "None"]
NoError == [message |-> "", token |-> Token("Illegal", <<>>)]
Ok(node, p) == [kind |-> "Ok", node |-> node, error |-> NoError, p |-> p]
Err(message, token, p) ==
    [kind |-> "Err", node |-> NoNode,
     error |-> [message |-> message, token |-> token], p |-> p]
Panic(p) == [kind |-> "Panic", node |-> NoNode, error |-> NoError, p |-> p]

\* parse_identifier
parse_identifier(p) == Ok(Id(p.current_token.literal), p)

\* parse_integer_literal: parse::<i64>().unwrap() panics on Err.
parse_integer_literal(p) ==
    LET val == parse_i64(p.current_token.literal)
    IN  IF val.ok THEN Ok(Integer(val.value), p) ELSE Panic(p)

\* An error of parse_expression that names the token after the offending one.
no_prefix_error_peek(p) ==
    Err("No prefix parse function for", p.peek_token, p)

\* parse_expression's error for a token kind with no prefix function.
no_prefix_error(p) ==
    Err("No prefix parse function for", p.current_token, p)

RECURSIVE parse_expression(_, _, _)

\* An end of parse_prefix_expression that hands the operand on unwrapped.
prefix_wrap_flat(operator, right) == right

\* parse_prefix_expression, after the operand was parsed: wrap it, or pass
\* its failure on (`?`).
prefix_wrap(operator, right) ==
    IF right.kind = "Ok"
    THEN Ok(Prefix(operator, right.node), right.p)
    ELSE right

\* parse_prefix_expression
parse_prefix_expression(inp, p) ==
    Only({prefix_wrap(p.current_token.literal, right) :
            right \in {parse_expression(inp, q, "Prefix") :
                          q \in {Parser_next_token(inp, p)}}})

\* parse_expression's lookup in prefix_parse_fns and its call of the function
\* found.
prefix_dispatch(inp, p) ==
    IF p.current_token.token_type \notin DOMAIN prefix_parse_fns
    THEN no_prefix_error(p)
    ELSE CASE prefix_parse_fns[p.current_token.token_type] = "parse_identifier" ->
                parse_identifier(p)
           [] prefix_parse_fns[p.current_token.token_type] = "parse_integer_literal" ->
                parse_integer_literal(p)
           [] prefix_parse_fns[p.current_token.token_type] = "parse_prefix_expression" ->
                parse_prefix_expression(inp, p)

\* The precedence levels a caller can hand to parse_expression.
Precedence ==
    {"Lowest", "Equals", "LessGreater", "Sum", "Product", "Prefix", "Call"}

\* The infix table Parser::new creates: it is left empty.
infix_parse_fns == [t \in {} |-> "none"]

\* A parse_expression that reads its precedence: at Prefix and above it takes
\* no further prefix operator.
parse_expression_bound(inp, p, precedence) ==
    IF /\ precedence \in {"Prefix", "Call"}
       /\ p.current_token.token_type \in {"Bang", "Dash"}
    THEN no_prefix_error([p EXCEPT !.started = Append(@, p.current_token)])
    ELSE Only({prefix_dispatch(inp, q) :
                 q \in {[p EXCEPT !.started = Append(@, p.current_token)]}})

\* Parser::parse_expression (the precedence it is given is never read)
parse_expression(inp, p, precedence) ==
    Only({prefix_dispatch(inp, q) :
            q \in {[p EXCEPT !.started = Append(@, p.current_token)]}})

\* An end of statement that leaves a `;` where it is.
optional_semicolon_left(inp, p) == p

\* The `if self.peek_token.token_type == Semicolon { self.next_token() }` that
\* ends parse_return_statement and parse_expression_statement.
optional_semicolon(inp, p) ==
    IF p.peek_token.token_type = "Semicolon" THEN Parser_next_token(inp, p) ELSE p

\* An end of parse_let_statement that takes the `;` when it is there and does
\* not ask for it, as parse_return_statement does.
let_value_lenient(inp, token, identifier, e) ==
    IF e.kind # "Ok" THEN e
    ELSE Ok(LetStatement(token, identifier, e.node), optional_semicolon(inp, e.p))

\* parse_let_statement from the value's parse on: the statement, and the `;`
\* that must follow.
let_value(inp, token, identifier, e) ==
    IF e.kind # "Ok" THEN e
    ELSE IF e.p.peek_token.token_type = "Semicolon"
    THEN Ok(LetStatement(token, identifier, e.node), Parser_next_token(inp, e.p))
    ELSE Err("Expected Semicolon, got", e.p.peek_token, e.p)

\* parse_let_statement from the check for `=` on.
let_assign(inp, token, identifier, p) ==
    IF p.current_token.token_type # "Assign"
    THEN Err("Expected Assign, got", p.current_token, p)
    ELSE Only({let_value(inp, token, identifier, e) :
                 e \in {parse_expression(inp, q, "Lowest") :
                           q \in {Parser_next_token(inp, p)}}})

\* parse_let_statement from the check for the identifier on.
let_identifier(inp, token, p) ==
    IF p.current_token.token_type # "Ident"
    THEN Err("Expected Ident, got", p.current_token, p)
    ELSE Only({let_assign(inp, token, p.current_token.literal, q) :
                 q \in {Parser_next_token(inp, p)}})

\* Parser::parse_let_statement
parse_let_statement(inp, p) ==
    Only({let_identifier(inp, p.current_token, q) :
            q \in {Parser_next_token(inp, p)}})

\* parse_return_statement after the value was parsed.
return_value(inp, token, e) ==
    IF e.kind # "Ok" THEN e
    ELSE Ok(ReturnStatement(token, e.node), optional_semicolon(inp, e.p))

\* Parser::parse_return_statement
parse_return_statement(inp, p) ==
    Only({return_value(inp, p.current_token, e) :
            e \in {parse_expression(inp, q, "Lowest") :
                      q \in {Parser_next_token(inp, p)}}})

\* parse_expression_statement after the expression was parsed: the
\* statement's token is current_token as parse_expression left it.
expression_statement(inp, e) ==
    IF e.kind # "Ok" THEN e
    ELSE Ok(ExpressionStatement(e.p.current_token, e.node),
            optional_semicolon(inp, e.p))

\* Parser::parse_expression_statement
parse_expression_statement(inp, p) ==
    Only({expression_statement(inp, e) :
            e \in {parse_expression(inp, p, "Lowest")}})

\* Parser::parse_statement
parse_statement(inp, p) ==
    CASE p.current_token.token_type = "Let"    -> parse_let_statement(inp, p)
      [] p.current_token.token_type = "Return" -> parse_return_statement(inp, p)
      [] OTHER                                 -> parse_expression_statement(inp, p)

\* A `?` that hands the statements built so far back with the error.
early_return_keeps_program(statements, r) ==
    [kind |-> r.kind, statements |-> statements, error |-> r.error]

\* The `?` of parse_program: the early return of a failed parse_statement.
\* The local program is dropped; the Err carries the message alone.
early_return(statements, r) ==
    [kind |-> r.kind, statements |-> <<>>, error |-> r.error]

----------------------------------------------------------------------------
(* Bounds and inputs *)

\* Longest source text over LexAlphabet.
MaxLen == 3
\* Longest source text over the single-character token characters.
MaxOpLen == 2
\* Direct next_token calls made beyond one per byte of the source.
MaxExtraCalls == 2
\* Most snippets a source text for the parser is put together from.
MaxSnippets == 2

\* All texts over alphabet A of length at most n.
RECURSIVE TextsUpTo(_, _)
TextsUpTo(A, n) ==
    IF n = 0 THEN {<<>>}
    ELSE LET shorter == TextsUpTo(A, n - 1)
         IN  shorter \cup {Append(t, b) : t \in shorter, b \in A}

\* One byte of every class the lexer tells apart.
LexAlphabet ==
    {Ord[c] : c \in {"NUL", " ", "FF", "=", "!", ";", "@", "i", "f", "A", "_", "0", "5"}}

\* The single-character token characters.
OpChars ==
    {Ord[c] : c \in {"=", "+", "-", "*", "/", "<", ">", "(", ")", "{", "}",
                     ",", ";", "!"}}

\* The bytes u8::is_ascii_whitespace accepts, and one byte of a token.
WhitespaceAlphabet == {Ord[c] : c \in {" ", "TAB", "LF", "FF", "CR", "x"}}

LexInputs ==
    TextsUpTo(LexAlphabet, MaxLen) \cup TextsUpTo(OpChars, MaxOpLen)
        \cup TextsUpTo(WhitespaceAlphabet, MaxLen)

\* Statement-sized pieces of source text: well-formed and ill-formed let,
\* return and expression statements, with and without their `;`.
Snippets ==
    {Str(<<"l", "e", "t", " ", "x", "=", "5", ";">>),
     Str(<<"l", "e", "t", " ", "x", " ", "5", ";">>),
     Str(<<"l", "e", "t", " ", "=", "5", ";">>),
     Str(<<"l", "e", "t", " ", "x", "=", "5", " ">>),
     Str(<<"l", "e", "t", " ", "x", "=", ";">>),
     Str(<<"l", "e", "t", " ", "y", "=", "-", "x", ";">>),
     Str(<<"r", "e", "t", "u", "r", "n", " ", "5", ";">>),
     Str(<<"r", "e", "t", "u", "r", "n", " ", "x", " ">>),
     Str(<<"r", "e", "t", "u", "r", "n", ";">>),
     Str(<<"x", ";">>),
     Str(<<"5", " ">>),
     Str(<<"0", "0", "7", ";">>),
     Str(<<"!", "5", ";">>),
     Str(<<"-", "1", "5", ";">>),
     Str(<<"!", "-", "x", " ">>),
     Str(<<"+">>),
     Str(<<";">>),
     Str(<<"@">>),
     Str(<<"9", "2", "2", "3", "3", "7", "2", "0", "3", "6", "8", "5", "4",
           "7", "7", "5", "8", "0", "7", ";">>),
     Str(<<"9", "2", "2", "3", "3", "7", "2", "0", "3", "6", "8", "5", "4",
           "7", "7", "5", "8", "0", "8", ";">>)}

\* The concatenations of at most n snippets.
RECURSIVE SnippetTexts(_)
SnippetTexts(n) ==
    IF n = 0 THEN {<<>>}
    ELSE LET shorter == SnippetTexts(n - 1)
         IN  shorter \cup {t \o sn : t \in shorter, sn \in Snippets}

\* The parser is run on the snippet texts and on every text the lexer is run on.
ParseInputs == SnippetTexts(MaxSnippets) \cup LexInputs

----------------------------------------------------------------------------
(* The lexer specification: direct calls and the iterator view *)

NoToken == Token("Illegal", <<>>)
NoParser == [lexer |-> Lexer_new(<<>>), current_token |-> NoToken,
             peek_token |-> NoToken, pulls |-> 0, started |-> <<>>,
             seen |-> <<>>]
NoResult == [kind |-> "None", statements |-> <<>>, error |-> <<>>]
NoLast == [index |-> 0, token |-> NoToken, outcome |-> "None", node |-> NoNode,
           error |-> NoError, built |-> 0]

ParseIdle ==
    /\ parser = NoParser
    /\ program = <<>>
    /\ result = NoResult
    /\ pc = "idle"
    /\ gen = 1
    /\ first = <<>>
    /\ last = NoLast

Init ==
    /\ input \in LexInputs
    /\ lexer = Lexer_new(input)
    /\ trace = <<>>
    /\ iter = Lexer_new(input)
    /\ yielded = <<>>
    /\ iterEnded = FALSE
    /\ ParseIdle

\* A direct call of Lexer::next_token.
NextToken ==
    /\ Len(trace) < Len(input) + MaxExtraCalls
    /\ LET r == Lexer_next_token(input, lexer)
       IN  /\ lexer' = r.lex
           /\ trace' = Append(trace, [pre |-> lexer, tok |-> r.tok, post |-> r.lex])
    /\ UNCHANGED <<input, iter, yielded, iterEnded>>
    /\ UNCHANGED parseVars

\* One round of `for token in lexer` (Repl::start): Iterator::next, and the
\* loop ends on None.
IterNext ==
    /\ ~iterEnded
    /\ LET r == Iterator_next(input, iter)
       IN  /\ iter' = r.lex
           /\ IF r.some
              THEN iterEnded' = FALSE /\ yielded' = Append(yielded, r.item)
              ELSE iterEnded' = TRUE /\ yielded' = yielded
    /\ UNCHANGED <<input, lexer, trace>>
    /\ UNCHANGED parseVars

Next == NextToken \/ IterNext

Spec == Init /\ [][Next]_vars

----------------------------------------------------------------------------
(* The parser specification: Parser::new, parse_program statement by
   statement, and the rendering of its Program parsed again *)

LexIdle ==
    /\ lexer = Lexer_new(input)
    /\ trace = <<>>
    /\ iter = Lexer_new(input)
    /\ yielded = <<>>
    /\ iterEnded = FALSE

InitParse ==
    /\ input \in ParseInputs
    /\ LexIdle
    /\ parser = NoParser
    /\ program = <<>>
    /\ result = NoResult
    /\ pc = "new"
    /\ gen = 1
    /\ first = <<>>
    /\ last = NoLast

\* Lexer::new on the text, Parser::new on the lexer, and parse_program's
\* `let mut program`.
ParserNew ==
    /\ pc = "new"
    /\ parser' = Parser_new(input, Lexer_new(input))
    /\ program' = <<>>
    /\ pc' = "parsing"
    /\ UNCHANGED <<input, result, gen, first, last>>
    /\ UNCHANGED lexVars

\* What parse_program does with the result r of parse_statement: the early
\* return of `?`, or push and next_token.
StatementDone(r) ==
    /\ last' = [index |-> parser.pulls - 1, token |-> parser.current_token,
                outcome |-> r.kind, node |-> r.node, error |-> r.error,
                built |-> Len(program)]
    /\ IF r.kind = "Ok"
       THEN /\ program' = Append(program, r.node)
            /\ parser' = Parser_next_token(input, r.p)
            /\ UNCHANGED <<result, pc>>
       ELSE /\ result' = early_return(program, r)
            /\ program' = <<>>
            /\ parser' = r.p
            /\ pc' = "returned"

\* One round of parse_program's while loop.
ParseStatement ==
    /\ pc = "parsing"
    /\ parser.current_token.token_type # "Eof"
    /\ \E r \in {parse_statement(input, parser)} : StatementDone(r)
    /\ UNCHANGED <<input, gen, first>>
    /\ UNCHANGED lexVars

\* parse_program's loop exit: Ok(program).
ParseProgramReturn ==
    /\ pc = "parsing"
    /\ parser.current_token.token_type = "Eof"
    /\ result' = [kind |-> "Ok", statements |-> program, error |-> NoError]
    /\ program' = <<>>
    /\ pc' = "returned"
    /\ UNCHANGED <<input, parser, gen, first, last>>
    /\ UNCHANGED lexVars

\* Program::show of the parsed Program; its text is the next source.
Render ==
    /\ pc = "returned"
    /\ gen = 1
    /\ result.kind = "Ok"
    /\ input' = show_program(result.statements)
    /\ first' = result.statements
    /\ gen' = 2
    /\ pc' = "new"
    /\ parser' = NoParser
    /\ result' = NoResult
    /\ last' = NoLast
    /\ UNCHANGED program
    /\ UNCHANGED lexVars

NextParse == ParserNew \/ ParseStatement \/ ParseProgramReturn \/ Render

SpecParse == InitParse /\ [][NextParse]_vars

\* parse_program is sequential code: once called it runs on, a step is taken
\* whenever one can be.
SpecParseFair == SpecParse /\ WF_vars(NextParse)

----------------------------------------------------------------------------
(* Claims about the lexer, checked under Spec *)

Min(a, b) == IF a < b THEN a ELSE b

EofToken == Token("Eof", <<>>)

\* The number of tokens the direct calls returned before their first Eof.
RECURSIVE LeadingNonEof(_, _)
LeadingNonEof(tr, i) ==
    IF i > Len(tr) \/ tr[i].tok.token_type = "Eof"
    THEN i - 1
    ELSE LeadingNonEof(tr, i + 1)

\* C1: once a direct next_token call has returned the Eof token, every later
\* call on that lexer returns the Eof token too.
C1_EofForever ==
    \A i, j \in 1..Len(trace) :
        (i < j /\ trace[i].tok.token_type = "Eof")
            => trace[j].tok.token_type = "Eof"

\* C2: the for loop over the Iterator view receives, in order, exactly the
\* tokens the direct calls return before their first Eof, never an Eof token,
\* at most one item per byte of the source, and then the loop ends: it ends
\* no earlier than the direct calls reach Eof, and a cursor that has passed
\* the end of the source has ended it.
C2_IteratorView ==
    LET k == LeadingNonEof(trace, 1)
    IN  /\ \A i \in 1..Len(yielded) : yielded[i].token_type # "Eof"
        /\ \A i \in 1..Min(Len(yielded), k) : yielded[i] = trace[i].tok
        /\ k < Len(trace) => Len(yielded) <= k
        /\ iterEnded => k <= Len(yielded)
        /\ Len(yielded) <= Len(input)
        /\ ~iterEnded => iter.current_position <= Len(input)

\* C2's case: the loop has ended after at least two items, and the direct
\* calls have gone on to their Eof.
C2_Witness ==
    /\ iterEnded
    /\ Len(yielded) >= 2
    /\ Len(trace) > Len(yielded)
    /\ trace[Len(yielded) + 1].tok.token_type = "Eof"

\* The bytes of an identifier run as the claim has them: ASCII letters of
\* either case and the underscore.
IsRunByte(b) == b \in 65..90 \/ b \in 97..122 \/ b = 95

\* The position after the maximal run of IsRunByte bytes that holds position p.
RECURSIVE RunEnd(_, _)
RunEnd(inp, p) ==
    IF p < Len(inp) /\ IsRunByte(inp[p + 1]) THEN RunEnd(inp, p + 1) ELSE p

\* The token the claim gives a run: its keyword, or an Ident.
RunToken(run) ==
    CASE run = <<108, 101, 116>>                -> Token("Let", run)
      [] run = <<102, 110>>                     -> Token("Function", run)
      [] run = <<105, 102>>                     -> Token("If", run)
      [] run = <<101, 108, 115, 101>>           -> Token("Else", run)
      [] run = <<116, 114, 117, 101>>           -> Token("True", run)
      [] run = <<102, 97, 108, 115, 101>>       -> Token("False", run)
      [] run = <<114, 101, 116, 117, 114, 110>> -> Token("Return", run)
      [] OTHER                                  -> Token("Ident", run)

\* C8: a call whose first byte after whitespace starts a maximal run of ASCII
\* letters (either case) and underscores returns one token for the whole run,
\* the run's keyword or an Ident with the run as literal, and leaves the
\* cursor right after the run.
C8_OneTokenPerRun ==
    \A n \in 1..Len(trace) :
        LET c == trace[n]
            s == skip_whitespace(input, c.pre).current_position
        IN  (/\ s < Len(input)
             /\ IsRunByte(input[s + 1])
             /\ (s = 0 \/ ~IsRunByte(input[s])))
            => /\ c.tok = RunToken(SubSeq(input, s + 1, RunEnd(input, s)))
               /\ c.post.current_position = RunEnd(input, s)

\* The kind the claim gives each single-character token character.
OpKind(b) ==
    CASE b = 61  -> "Assign"       [] b = 43  -> "Plus"
      [] b = 45  -> "Dash"         [] b = 42  -> "Asterisk"
      [] b = 47  -> "ForwardSlash" [] b = 60  -> "LesserThan"
      [] b = 62  -> "GreaterThan"  [] b = 40  -> "Lparen"
      [] b = 41  -> "Rparen"       [] b = 123 -> "Lbrace"
      [] b = 125 -> "Rbrace"       [] b = 44  -> "Comma"
      [] b = 59  -> "Semicolon"    [] b = 33  -> "Bang"

OnlyOpChars(inp) == \A i \in 1..Len(inp) : inp[i] \in OpChars

\* No `=` or `!` of the text has `=` as its next byte.
NoDoubleOp(inp) ==
    \A i \in 1..(Len(inp) - 1) : ~(inp[i] \in {61, 33} /\ inp[i + 1] = 61)

\* One token per character, in order, each with its character's kind and the
\* character as literal, and Eof from then on.
OneTokenPerChar ==
    \A n \in 1..Len(trace) :
        IF n <= Len(input)
        THEN trace[n].tok = Token(OpKind(input[n]), <<input[n]>>)
        ELSE trace[n].tok = EofToken

\* C9 as stated: on any text of single-character token characters the calls
\* return one token per character.
C9_Original == OnlyOpChars(input) => OneTokenPerChar

\* C9 amended: on any text of single-character token characters in which no
\* `=` or `!` has `=` as its next byte, the calls return one token per
\* character, in order, with the character's kind and the character as
\* literal, and then Eof.
C9_Amended == (OnlyOpChars(input) /\ NoDoubleOp(input)) => OneTokenPerChar

\* C9's case: such a text of two or more characters, with a `=` followed by a
\* `!` in it, lexed through to Eof.
C9_Witness ==
    /\ OnlyOpChars(input) /\ NoDoubleOp(input)
    /\ Len(input) >= 2
    /\ \E i \in 1..(Len(input) - 1) : input[i] = 61 /\ input[i + 1] = 33
    /\ Len(trace) = Len(input) + 1

\* Byte p of the text, or -1 beyond its end.
ByteOrNone(inp, p) == IF p < Len(inp) THEN inp[p + 1] ELSE -1

\* C10: a call that starts (after whitespace) on `=` or `!` returns Equals
\* `==` or NotEqual `!=` and consumes two bytes when the very next byte is
\* `=`, and otherwise returns Assign `=` or Bang `!` and consumes one byte;
\* and no other call returns Equals or NotEqual.
C10_TwoCharOperators ==
    \A n \in 1..Len(trace) :
        LET c   == trace[n]
            p   == skip_whitespace(input, c.pre).current_position
            cur == ByteOrNone(input, p)
            nxt == ByteOrNone(input, p + 1)
        IN  /\ cur \in {61, 33} =>
                IF nxt = 61
                THEN /\ c.tok = IF cur = 61 THEN Token("Equals", <<61, 61>>)
                                            ELSE Token("NotEqual", <<33, 61>>)
                     /\ c.post.current_position = p + 2
                ELSE /\ c.tok = IF cur = 61 THEN Token("Assign", <<61>>)
                                            ELSE Token("Bang", <<33>>)
                     /\ c.post.current_position = p + 1
            /\ c.tok.token_type \in {"Equals", "NotEqual"} =>
                (cur \in {61, 33} /\ nxt = 61)

\* C10's case: one text on which the calls have returned a two-character
\* operator and also a lone `=` or `!` whose next byte is not `=`.
C10_Witness ==
    /\ \E n \in 1..Len(trace) : trace[n].tok.token_type \in {"Equals", "NotEqual"}
    /\ \E n \in 1..Len(trace) :
          /\ trace[n].tok.token_type \in {"Assign", "Bang"}
          /\ trace[n].post.current_position < Len(input)

\* The position after the maximal run of ASCII digits that holds position p.
RECURSIVE DigitRunEnd(_, _)
DigitRunEnd(inp, p) ==
    IF p < Len(inp) /\ inp[p + 1] \in 48..57 THEN DigitRunEnd(inp, p + 1) ELSE p

\* Position p starts a maximal run of ASCII digits.
DigitRunStart(inp, p) ==
    /\ p < Len(inp)
    /\ inp[p + 1] \in 48..57
    /\ (p = 0 \/ inp[p] \notin 48..57)

\* The calls that returned an Int token for the bytes from position p on.
IntCallsAt(p) ==
    {n \in 1..Len(trace) :
        /\ trace[n].tok.token_type = "Int"
        /\ skip_whitespace(input, trace[n].pre).current_position = p}

\* C11: every maximal run of ASCII digits the cursor has passed was returned
\* by exactly one call, as one Int token whose literal is the run byte for
\* byte (leading zeros included), and that call left the cursor on the first
\* byte after the run; and no Int token is returned for anything else.
C11_DigitRuns ==
    /\ \A p \in 0..(Len(input) - 1) :
          (DigitRunStart(input, p) /\ p < lexer.current_position) =>
              /\ Cardinality(IntCallsAt(p)) = 1
              /\ \A n \in IntCallsAt(p) :
                    /\ trace[n].tok.literal
                         = SubSeq(input, p + 1, DigitRunEnd(input, p))
                    /\ trace[n].post.current_position = DigitRunEnd(input, p)
    /\ \A n \in 1..Len(trace) :
          trace[n].tok.token_type = "Int" =>
              DigitRunStart(input,
                            skip_whitespace(input, trace[n].pre).current_position)

\* C11's case: a run of two or more digits with a leading zero was returned,
\* and source bytes follow it.
C11_Witness ==
    \E n \in 1..Len(trace) :
        /\ trace[n].tok.token_type = "Int"
        /\ Len(trace[n].tok.literal) >= 2
        /\ trace[n].tok.literal[1] = 48
        /\ trace[n].post.current_position < Len(input)

\* The text without its whitespace bytes.
RECURSIVE WithoutWhitespace(_)
WithoutWhitespace(text) ==
    IF text = <<>> THEN <<>>
    ELSE IF text[1] \in {32, 9, 10, 12, 13} THEN WithoutWhitespace(Tail(text))
    ELSE <<text[1]>> \o WithoutWhitespace(Tail(text))

\* The literals of the first n calls' tokens, one after the other.
RECURSIVE Literals(_, _)
Literals(tr, n) ==
    IF n = 0 THEN <<>> ELSE Literals(tr, n - 1) \o tr[n].tok.literal

\* C12: the literal of every token but Eof is the source bytes its call
\* consumed after the whitespace, and once the calls have reached the end of
\* the source the literals of their tokens, one after the other, are the
\* source without its whitespace.
C12_LiteralIsSource ==
    /\ \A n \in 1..Len(trace) :
          trace[n].tok.token_type # "Eof" =>
              trace[n].tok.literal
                = SubSeq(input,
                         skip_whitespace(input, trace[n].pre).current_position + 1,
                         trace[n].post.current_position)
    /\ lexer.current_position > Len(input) =>
          Literals(trace, Len(trace)) = WithoutWhitespace(input)

\* read_position is current_position + 1 in lexer l now and was after each
\* read_char l has made, its steps are all there from construction on, and no
\* read_char has moved a position back.
InLockstep(l) ==
    /\ l.read_position = l.current_position + 1
    /\ Len(l.steps) >= 1
    /\ l.steps[1].from_current = 0 /\ l.steps[1].from_read = 0
    /\ l.steps[Len(l.steps)].current_position = l.current_position
    /\ l.steps[Len(l.steps)].read_position = l.read_position
    /\ \A n \in 1..Len(l.steps) :
          /\ l.steps[n].read_position = l.steps[n].current_position + 1
          /\ l.steps[n].current_position >= l.steps[n].from_current
          /\ l.steps[n].read_position >= l.steps[n].from_read
          /\ n > 1 => /\ l.steps[n].from_current = l.steps[n - 1].current_position
                      /\ l.steps[n].from_read = l.steps[n - 1].read_position

\* C16: from the return of Lexer::new on, and after every read_char that
\* next_token makes (directly or through the iterator), read_position is
\* current_position + 1, and neither position has ever decreased.
C16_PositionsInLockstep ==
    /\ InLockstep(lexer)
    /\ InLockstep(iter)
    /\ \A n \in 1..Len(trace) :
          /\ trace[n].post.current_position >= trace[n].pre.current_position
          /\ trace[n].post.read_position >= trace[n].pre.read_position

\* C16's case: one call has made two or more read_char steps, and the
\* cursor has gone on past the end of the source.
C16_Witness ==
    /\ Len(input) >= 2
    /\ lexer.current_position > Len(input)
    /\ \E n \in 1..Len(trace) :
          Len(trace[n].post.steps) >= Len(trace[n].pre.steps) + 2

\* The calls so far that returned a token other than Eof.
NonEofCalls == {n \in 1..Len(trace) : trace[n].tok.token_type # "Eof"}

\* C17: every call moves the cursor forward by at least one byte, whatever
\* branch it takes; so at most Len(input) calls return a token other than
\* Eof, and Eof is returned within the first Len(input) + 1 calls.
C17_ForwardProgress ==
    /\ \A n \in 1..Len(trace) :
          trace[n].post.current_position >= trace[n].pre.current_position + 1
    /\ Cardinality(NonEofCalls) <= Len(input)
    /\ Len(trace) > Len(input) =>
          \E n \in 1..(Len(input) + 1) : trace[n].tok.token_type = "Eof"

\* C17's case: a source of three bytes gave a token per byte, then Eof, and
\* a further call at the end of input returned Eof and moved the cursor on.
C17_Witness ==
    /\ Len(input) = 3
    /\ Len(trace) = 5
    /\ NonEofCalls = {1, 2, 3}
    /\ trace[5].post.current_position = trace[5].pre.current_position + 1

\* The byte under the cursor of lexer l is the source byte at
\* current_position inside the buffer, and the sentinel 0 beyond it.
ChUnderCursor(l) ==
    l.ch = IF l.current_position < Len(input)
           THEN input[l.current_position + 1]
           ELSE 0

\* Every call returned a token, with the byte under the cursor right before
\* and after it, and the text of an identifier or integer was sliced from
\* inside the buffer.
NeverFails ==
    /\ ChUnderCursor(lexer)
    /\ ChUnderCursor(iter)
    /\ \A n \in 1..Len(trace) :
          /\ ChUnderCursor(trace[n].pre)
          /\ ChUnderCursor(skip_whitespace(input, trace[n].pre))
          /\ ChUnderCursor(trace[n].post)
          /\ trace[n].tok.token_type \in TokenType
          /\ trace[n].tok.token_type \notin {"Eof", "Illegal"} =>
                trace[n].post.current_position <= Len(input)

\* A byte that is no whitespace, operator or delimiter, letter, digit or 0.
IsOtherByte(b) ==
    /\ b \notin {32, 9, 10, 12, 13}
    /\ b \notin OpChars
    /\ b \notin 65..90 /\ b \notin 97..122
    /\ b \notin 48..57
    /\ b # 0

\* The calls that returned Illegal for the one byte at position p.
IllegalCallsAt(p) ==
    {n \in 1..Len(trace) :
        /\ trace[n].tok.token_type = "Illegal"
        /\ skip_whitespace(input, trace[n].pre).current_position = p
        /\ trace[n].post.current_position = p + 1}

\* The byte at position p is an underscore that continues an identifier: a
\* lower-case letter comes before it in its run of letters and underscores.
ContinuesIdentifier(inp, p) ==
    /\ inp[p + 1] = 95
    /\ \E q \in 0..(p - 1) :
          /\ inp[q + 1] \in 97..122
          /\ \A m \in q..p : IsRunByte(inp[m + 1])

IsNamedWhitespace(b) == b \in {32, 9, 10, 13}

\* C21: the bytes a call passes over before the first byte of its token are
\* all space, tab, newline or carriage return, and they are all of them: the
\* byte the token starts at is none of these.
C21_WhitespaceSkipped ==
    \A n \in 1..Len(trace) :
        LET from == trace[n].pre.current_position
            to   == skip_whitespace(input, trace[n].pre).current_position
        IN  /\ \A p \in from..(to - 1) : IsNamedWhitespace(input[p + 1])
            /\ to < Len(input) => ~IsNamedWhitespace(input[to + 1])

----------------------------------------------------------------------------
(* Claims about the parser, checked under SpecParse *)

\* The first n tokens of direct next_token calls on a fresh lexer for inp.
RECURSIVE LexN(_, _, _)
LexN(inp, l, n) ==
    IF n = 0 THEN <<>>
    ELSE Only({<<r.tok>> \o LexN(inp, r.lex, n - 1) :
                 r \in {Lexer_next_token(inp, l)}})

\* The token stream of the current source; it is all Eof beyond Len(input) + 1.
Stream == LexN(input, Lexer_new(input), Len(input) + 3)

\* The number of consecutive `!` / `-` tokens of T from index j on.
RECURSIVE PrefixRun(_, _)
PrefixRun(T, j) ==
    IF j <= Len(T) /\ T[j].token_type \in {"Bang", "Dash"}
    THEN 1 + PrefixRun(T, j + 1)
    ELSE 0

\* The decimal value of a digit run, as digits without leading zeros.
DecimalValue(text) == strip_zeros([i \in 1..Len(text) |-> text[i] - 48])

\* An operand token: an identifier, or an integer that fits i64.
IsOperand(tok) ==
    \/ tok.token_type = "Ident"
    \/ tok.token_type = "Int" /\ fits_i64(DecimalValue(tok.literal))

\* The expression of k prefix operators from T[j] on and then an operand.
RECURSIVE ExpressionAt(_, _, _)
ExpressionAt(T, j, k) ==
    IF k > 0 THEN Prefix(T[j].literal, ExpressionAt(T, j + 1, k - 1))
    ELSE IF T[j].token_type = "Ident" THEN Id(T[j].literal)
    ELSE Integer(DecimalValue(T[j].literal))

ErrorResult(message, token) ==
    [kind |-> "Err", statements |-> <<>>,
     error |-> [message |-> message, token |-> token]]

\* C3: the rendering of a parsed Program parses again, to the same statements.
C3_RoundTrip ==
    (gen = 2 /\ pc = "returned")
        => (result.kind = "Ok" /\ result.statements = first)

\* C4: a statement that starts at a `let` token (token i of the stream) parses
\* iff the tokens after it are an Ident, an Assign, an expression (prefix
\* operators and an operand) and a Semicolon; then it is the Let statement of
\* that token, name and expression; and a missing Ident, Assign or Semicolon
\* makes parse_program return the error that names the expected kind and the
\* token found.
C4_LetStatement ==
    (last.outcome # "None" /\ last.token.token_type = "Let") =>
        LET T == Stream
            i == last.index
            k == PrefixRun(T, i + 3)
            headOk == T[i + 1].token_type = "Ident" /\ T[i + 2].token_type = "Assign"
            exprOk == headOk /\ IsOperand(T[i + 3 + k])
        IN  /\ T[i] = last.token
            /\ last.outcome = "Ok"
                 <=> (exprOk /\ T[i + 4 + k].token_type = "Semicolon")
            /\ last.outcome = "Ok" =>
                 last.node = LetStatement(T[i], T[i + 1].literal,
                                          ExpressionAt(T, i + 3, k))
            /\ T[i + 1].token_type # "Ident" =>
                 result = ErrorResult("Expected Ident, got", T[i + 1])
            /\ (T[i + 1].token_type = "Ident" /\ T[i + 2].token_type # "Assign") =>
                 result = ErrorResult("Expected Assign, got", T[i + 2])
            /\ (exprOk /\ T[i + 4 + k].token_type # "Semicolon") =>
                 result = ErrorResult("Expected Semicolon, got", T[i + 4 + k])

\* C4's case: a let statement with a prefix expression as value has parsed,
\* after an earlier statement.
C4_Witness ==
    /\ last.outcome = "Ok"
    /\ last.node.kind = "Let"
    /\ last.node.value.kind = "Prefix"
    /\ last.built >= 1

SameNumber(ds, text) ==
    \A n \in 0..(Len(ds) + Len(text)) :
        (IF n < Len(ds) THEN ds[Len(ds) - n] ELSE 0)
            = (IF n < Len(text) THEN text[Len(text) - n] - 48 ELSE 0)

\* C6: parse_program never panics; an expression statement for an Int token
\* holds the decimal value of the token's digit run; and an Int token whose
\* digit run is beyond i64::MAX makes parse_program return an error.
C6_IntegerExact ==
    /\ result.kind # "Panic"
    /\ (last.outcome = "Ok" /\ last.node.kind = "Expression"
            /\ last.node.expression.kind = "Integer")
        => SameNumber(last.node.expression.value, last.node.token.literal)
    /\ \A n \in 1..Len(parser.started) :
          (/\ parser.started[n].token_type = "Int"
           /\ ~fits_i64(DecimalValue(parser.started[n].literal))
           /\ pc = "returned")
          => result.kind = "Err"

\* C7: when parse_expression is entered on a token whose kind has no prefix
\* function, that is the last expression started, the statement has no
\* result and parse_program has returned the error that names that token,
\* which is still the current token.
C7_NoPrefixIsError ==
    \A n \in 1..Len(parser.started) :
        parser.started[n].token_type \notin {"Ident", "Int", "Bang", "Dash"}
        => /\ n = Len(parser.started)
           /\ pc = "returned"
           /\ last.outcome = "Err"
           /\ last.node = NoNode
           /\ result = ErrorResult("No prefix parse function for",
                                   parser.started[n])
           /\ parser.current_token = parser.started[n]
           /\ parser.started[n] = Stream[parser.pulls - 1]

\* C7's case: the offending token is reached inside an expression, after a
\* prefix operator or after earlier expressions have parsed.
C7_Witness ==
    /\ Len(parser.started) >= 2
    /\ result.kind = "Err"
    /\ result.error.message = "No prefix parse function for"
    /\ result.error.token.token_type \in {"Eof", "Semicolon", "Plus", "Illegal"}

\* The rendering of an expression as the claim words it: a name as it is, a
\* value in decimal, a Prefix as `(`, operator, operand, `)`.
RECURSIVE RenderedExpression(_)
RenderedExpression(e) ==
    IF e.kind = "Prefix"
    THEN <<40>> \o e.operator \o RenderedExpression(e.right) \o <<41>>
    ELSE IF e.kind = "Id" THEN e.name
    ELSE [i \in 1..Len(e.value) |-> 48 + e.value[i]]

\* The rendering of a statement as the claim words it.
RenderedStatement(st) ==
    IF st.kind = "Let"
    THEN st.token.literal \o <<32>> \o st.name \o <<32, 61, 32>>
            \o RenderedExpression(st.value) \o <<59>>
    ELSE IF st.kind = "Return"
    THEN st.token.literal \o <<32>> \o RenderedExpression(st.return_value)
            \o <<59>>
    ELSE RenderedExpression(st.expression)

\* The renderings of the first n statements, with nothing between them.
RECURSIVE RenderedUpTo(_, _)
RenderedUpTo(statements, n) ==
    IF n = 0 THEN <<>>
    ELSE RenderedUpTo(statements, n - 1) \o RenderedStatement(statements[n])

\* C13: the text Program.show() gives for a parsed Program is its statements'
\* renderings in order with no separator: a Let as token literal, space, name,
\* ` = `, value, `;`; a Return as token literal, space, value, `;`; an
\* expression statement as its expression; a Prefix as `(`, operator, operand,
\* `)` with no space.
C13_RenderingExact ==
    gen = 2 => input = RenderedUpTo(first, Len(first))

\* C13's case: a Program of a Let with a Prefix value and a Return was rendered.
C13_Witness ==
    /\ gen = 2
    /\ Len(first) = 2
    /\ first[1].kind = "Let"
    /\ first[1].value.kind = "Prefix"
    /\ first[2].kind = "Return"

\* The statements parse_program holds: its local list while it runs, its
\* result once it has returned.
Statements == IF pc = "returned" THEN result.statements ELSE program

\* C14: a return or expression statement that parsed, from token i of the
\* stream on, is the statement of its prefix operators and operand alone,
\* whether or not a `;` is the next token; it was pushed as the next statement
\* of the Program; and the parser then stands on the token after the `;` when
\* one follows the expression, and on the token after the expression when
\* none does.
C14_OptionalSemicolon ==
    (last.outcome = "Ok" /\ last.node.kind \in {"Return", "Expression"}) =>
        LET T == Stream
            i == last.index
            j == IF last.node.kind = "Return" THEN i + 1 ELSE i
            e == j + PrefixRun(T, j)
            after == IF T[e + 1].token_type = "Semicolon" THEN e + 2 ELSE e + 1
        IN  /\ IsOperand(T[e])
            /\ last.node.kind = "Return" =>
                  last.node = ReturnStatement(T[i], ExpressionAt(T, j, e - j))
            /\ last.node.kind = "Expression" =>
                  /\ last.node.expression = ExpressionAt(T, j, e - j)
                  /\ \E m \in j..e : last.node.token = T[m]
            /\ Len(Statements) = last.built + 1
            /\ Statements[last.built + 1] = last.node
            /\ parser.pulls - 1 = after
            /\ parser.current_token = T[after]

\* C14's case: a source of a return statement and an expression statement
\* with a single `;` in it, so that one is closed by `;` and the other is
\* not, has parsed to two statements.
C14_Witness ==
    /\ gen = 1
    /\ result.kind = "Ok"
    /\ Len(result.statements) = 2
    /\ result.statements[1].kind = "Return"
    /\ result.statements[2].kind = "Expression"
    /\ Cardinality({n \in 1..Len(input) : input[n] = 59}) = 1

\* C15: a statement that parsed carries the token at which it began, the
\* token parse_statement was called on: `let`, `return`, or the first token
\* of an expression statement's expression.
C15_OriginatingToken ==
    last.outcome = "Ok" =>
        /\ last.token = Stream[last.index]
        /\ last.node.token = last.token

\* The lexer after n direct next_token calls from lexer l on.
RECURSIVE LexerAfter(_, _, _)
LexerAfter(inp, l, n) ==
    IF n = 0 THEN l
    ELSE Only({LexerAfter(inp, r.lex, n - 1) : r \in {Lexer_next_token(inp, l)}})

\* C19: while parsing runs, and once it has returned, the parser has made two
\* or more next_token calls, each of which left the previous peek_token in
\* current_token and the next token of the lexer's stream in peek_token and
\* pulled that one token from the lexer; so Parser::new left the first and
\* second token of the stream in the cells, the cells are always two
\* consecutive tokens of the stream, and every parse_expression was entered
\* on a token of the stream, not on a placeholder of construction.
C19_LookaheadLockstep ==
    pc \in {"parsing", "returned"} =>
        /\ parser.pulls >= 2
        /\ parser.pulls <= Len(Stream)
        /\ Len(parser.seen) = parser.pulls
        /\ parser.seen[2] = [current_token |-> Stream[1], peek_token |-> Stream[2]]
        /\ \A n \in 2..parser.pulls :
              /\ parser.seen[n].current_token = parser.seen[n - 1].peek_token
              /\ parser.seen[n].current_token = Stream[n - 1]
              /\ parser.seen[n].peek_token = Stream[n]
        /\ parser.current_token = Stream[parser.pulls - 1]
        /\ parser.peek_token = Stream[parser.pulls]
        /\ parser.lexer = LexerAfter(input, Lexer_new(input), parser.pulls)
        /\ \A n \in 1..Len(parser.started) :
              \E m \in 2..parser.pulls :
                  parser.started[n] = parser.seen[m].current_token

\* C19's case: parsing runs on after three statements' worth of next_token
\* calls, with source tokens in both cells.
C19_Witness ==
    /\ pc = "parsing"
    /\ parser.pulls >= 5
    /\ parser.current_token.token_type \notin {"Eof", "Illegal"}
    /\ parser.peek_token.token_type \notin {"Eof", "Illegal"}

\* The text of k prefix operators from T[j] on and their operand, each
\* operator in parentheses with all that follows it.
RECURSIVE PrefixText(_, _, _)
PrefixText(T, j, k) ==
    IF k > 0
    THEN <<40>> \o T[j].literal \o PrefixText(T, j + 1, k - 1) \o <<41>>
    ELSE IF T[j].token_type = "Ident" THEN T[j].literal
    ELSE [n \in 1..Len(DecimalValue(T[j].literal)) |->
              48 + DecimalValue(T[j].literal)[n]]

\* C20: an expression statement that starts with k >= 1 prefix operators
\* followed by an identifier or integer operand parses, to k nested Prefix
\* expressions, outermost operator first and the operand innermost, each with
\* its operator's literal; it renders as the operators and operand in nested
\* parentheses; the parser has consumed the operators, the operand and a `;`
\* that follows, no more; and `!5;` and `-15;` render as `(!5)` and `(-15)`.
C20_PrefixChain ==
    /\ (last.outcome # "None" /\ last.token.token_type \in {"Bang", "Dash"}) =>
          LET T == Stream
              i == last.index
              k == PrefixRun(T, i)
          IN  /\ k >= 1
              /\ T[i] = last.token
              /\ IsOperand(T[i + k]) =>
                    /\ last.outcome = "Ok"
                    /\ last.node.kind = "Expression"
                    /\ last.node.expression = ExpressionAt(T, i, k)
                    /\ last.node.expression.operator = last.token.literal
                    /\ show_expression(last.node.expression) = PrefixText(T, i, k)
                    /\ parser.pulls - 1 =
                         IF T[i + k + 1].token_type = "Semicolon"
                         THEN i + k + 2 ELSE i + k + 1
    /\ (gen = 1 /\ pc = "returned" /\ input = <<33, 53, 59>>) =>
          (result.kind = "Ok"
              /\ show_program(result.statements) = <<40, 33, 53, 41>>)
    /\ (gen = 1 /\ pc = "returned" /\ input = <<45, 49, 53, 59>>) =>
          (result.kind = "Ok"
              /\ show_program(result.statements) = <<40, 45, 49, 53, 41>>)

\* C20's case: a chain of two prefix operators and an operand has parsed to
\* a Prefix within a Prefix.
C20_Witness ==
    /\ last.outcome = "Ok"
    /\ last.node.kind = "Expression"
    /\ last.node.expression.kind = "Prefix"
    /\ last.node.expression.right.kind = "Prefix"
    /\ last.node.expression.right.right.kind \in {"Id", "Integer"}

\* The kinds of the binary operator tokens.
BinaryOps ==
    {"Plus", "Dash", "Asterisk", "ForwardSlash", "LesserThan", "GreaterThan",
     "Equals", "NotEqual"}

\* An expression of Prefix nodes down to an Identifier or an Integer.
RECURSIVE IsPrefixTree(_)
IsPrefixTree(e) ==
    \/ e.kind \in {"Id", "Integer"}
    \/ e.kind = "Prefix" /\ IsPrefixTree(e.right)

\* The expression a statement holds.
StatementExpression(st) ==
    CASE st.kind = "Let"        -> st.value
      [] st.kind = "Return"     -> st.return_value
      [] st.kind = "Expression" -> st.expression

\* C22: where parsing stands, parse_expression gives one result, the parser
\* it leaves included, whatever precedence it is called with, and no token
\* kind has an infix function; every expression of a statement is an
\* Identifier, an Integer or a Prefix of such; and when a binary operator
\* token follows a complete operand it is not taken into the expression: in a
\* let statement parse_program returns the missing-semicolon error that names
\* it, and elsewhere the statement is that of the operand and its prefix
\* operators and the parser stands on the operator for the next statement.
C22_NoInfix ==
    /\ DOMAIN infix_parse_fns = {}
    /\ pc = "parsing" =>
          \A prec \in Precedence :
              parse_expression(input, parser, prec)
                  = parse_expression(input, parser, "Lowest")
    /\ \A n \in 1..Len(Statements) :
          IsPrefixTree(StatementExpression(Statements[n]))
    /\ last.outcome # "None" =>
          LET T == Stream
              i == last.index
              isLet == last.token.token_type = "Let"
              headOk == isLet =>
                          (T[i + 1].token_type = "Ident"
                              /\ T[i + 2].token_type = "Assign")
              j == IF isLet THEN i + 3
                   ELSE IF last.token.token_type = "Return" THEN i + 1 ELSE i
              e == j + PrefixRun(T, j)
          IN  (headOk /\ IsOperand(T[e]) /\ T[e + 1].token_type \in BinaryOps) =>
                  IF isLet
                  THEN result = ErrorResult("Expected Semicolon, got", T[e + 1])
                  ELSE /\ last.outcome = "Ok"
                       /\ StatementExpression(last.node) = ExpressionAt(T, j, e - j)
                       /\ parser.pulls - 1 = e + 1
                       /\ parser.current_token = T[e + 1]

\* C22's case: a return or expression statement has parsed and the parser
\* stands on the binary operator token that followed its operand.
C22_Witness ==
    /\ pc = "parsing"
    /\ last.outcome = "Ok"
    /\ last.node.kind \in {"Return", "Expression"}
    /\ parser.current_token.token_type \in BinaryOps
    /\ parser.current_token = Stream[parser.pulls - 1]

\* The number of tokens of T before its first Eof.
RECURSIVE TokensBeforeEof(_, _)
TokensBeforeEof(T, n) ==
    IF n > Len(T) \/ T[n].token_type = "Eof" THEN n - 1
    ELSE TokensBeforeEof(T, n + 1)

\* parse_program has returned a Program or an error.
Returned == pc = "returned" /\ result.kind \in {"Ok", "Err"}

\* Each round of the statement loop has moved the parser on by a token or
\* more, each parse_expression entered has its own token, and a Program has
\* no more statements than the source has tokens before its first Eof.
ParseProgress ==
    /\ pc \in {"parsing", "returned"} =>
          /\ Len(parser.started) <= parser.pulls - 1
          /\ parser.pulls <= Len(Stream)
    /\ last.outcome = "Ok" =>
          /\ parser.pulls - 1 > last.index
          /\ Len(Statements) <= parser.pulls - 2
    /\ pc = "returned" => result.kind \in {"Ok", "Err"}
    /\ (pc = "returned" /\ result.kind = "Ok") =>
          Len(result.statements) <= TokensBeforeEof(Stream, 1)

\* C23: every run of parse_program, on a source and on a rendering alike,
\* comes to its return with a Program or an error, and on the way each
\* round of the statement loop and each level of prefix recursion moves on by
\* a token; a Program has at most as many statements as there are tokens
\* before the first Eof.
C23_Terminates == [](ParseProgress) /\ ((pc = "new") ~> Returned)

=============================================================================
